---- MODULE Spec2Model ----
(***************************************************************************)
(* Misago threads app: the signal handlers of misago/threads/signals.py    *)
(* acting on the Category -> Thread -> Post/Event tables declared in       *)
(* misago/threads/migrations/0001_initial.py, and the views of             *)
(* misago/threads/views/_generic.py.                                       *)
(***************************************************************************)
EXTENDS Integers, FiniteSets, Sequences, TLC

\* ---------------------------------------------------------------- bounds
MaxCategories == 2
MaxThreads == 2
MaxPosts == 2
MaxEvents == 1
MaxUsers == 2
MaxPosted == 3
MaxNames == 1
MaxRequests == 2
MaxListed == 3
MaxPerPage == 1
MaxOrphans == 0
MaxRedirects == 2

CategoryIds == 1..MaxCategories
ThreadIds == 1..MaxThreads
PostIds == 1..MaxPosts
EventIds == 1..MaxEvents
UserIds == 1..MaxUsers

\* A NULL foreign key (no row has id 0: AutoField ids start at 1).
NULL == 0

\* ----------------------------------------------------------------- state
VARIABLES
    threads,      \* Thread rows: id -> record
    posts,        \* Post rows: id -> record
    events,       \* Event rows: id -> record
    categories,   \* Category rows (aggregate columns): id -> record
    users,        \* User rows: id -> [username, slug]
    last,         \* the signal most recently handled: name, sender, argument, rows matched
    pc,           \* delete_user_threads: the loop the handler is in
    deleting,     \* delete_user_threads: its sender, the user whose content is deleted
    recount_categories,  \* delete_user_threads: local set
    recount_threads,     \* delete_user_threads: local set
    changed_threads,     \* threads batch_update has still to yield
    changed_categories,  \* categories the last loop has still to visit
    forums,       \* Forum rows: id -> [role, slug, acl], acl as add_acl attaches it
    listing,      \* ForumView: the requesting user and the queryset it is shown
    requests,     \* editor requests: id -> the request and the view's position
    locks,        \* select_for_update row locks: row -> holding request or NULL
    browse,       \* ForumView.dispatch: the request, its locals and its response
    private_threads,  \* ids of the threads that have participants (private threads)
    participants,     \* ThreadParticipant rows: pairs <<thread, user>>
    deletions     \* user.delete() calls: user -> position and threads still to visit

tables == <<threads, posts, events, categories>>
handler == <<pc, deleting, recount_categories, recount_threads,
             changed_threads, changed_categories>>
views == <<forums, listing, requests, locks>>
private == <<private_threads, participants, deletions>>
vars == <<threads, posts, events, categories, users, last, pc, deleting,
          recount_categories, recount_threads, changed_threads, changed_categories,
          forums, listing, requests, locks, browse, private_threads, participants,
          deletions>>

\* The tables as one value, so that a handler is a function from tables to tables.
DB == [threads |-> threads, posts |-> posts, events |-> events, categories |-> categories]

Commit(d) ==
    /\ threads' = d.threads
    /\ posts' = d.posts
    /\ events' = d.events
    /\ categories' = d.categories

\* ------------------------------------------------------------- ORM rows
Restrict(f, S) == [x \in S |-> f[x]]

Max(S) == IF S = {} THEN NULL ELSE CHOOSE x \in S : \A y \in S : y <= x

\* Thread columns (migration, CreateModel Thread and the AddFields on thread).
ThreadRow(category, starter) ==
    [category |-> category, starter |-> starter,
     starter_name |-> NULL, starter_slug |-> NULL,
     last_poster |-> NULL, last_poster_name |-> NULL, last_poster_slug |-> NULL,
     replies |-> 0, last_post |-> NULL,
     weight |-> 0, is_moderated |-> FALSE, is_hidden |-> FALSE,
     slug |-> 1, acl |-> [can_see |-> TRUE]]

\* Post columns (migration, CreateModel Post and AddField post.thread).
PostRow(category, thread, poster) ==
    [category |-> category, thread |-> thread, poster |-> poster,
     poster_name |-> NULL,
     last_editor |-> NULL, last_editor_name |-> NULL, last_editor_slug |-> NULL]

\* Event columns (migration, CreateModel Event).
EventRow(category, thread, author) ==
    [category |-> category, thread |-> thread, author |-> author,
     author_name |-> NULL, author_slug |-> NULL]

\* Category aggregate columns.
CategoryRow == [threads |-> 0, posts |-> 0]

\* thread.post_set / thread.event_set / category.*_set: the reverse side of a foreign key.
post_set(d, t) == {p \in DOMAIN d.posts : d.posts[p].thread = t}
event_set(d, t) == {e \in DOMAIN d.events : d.events[e].thread = t}
category_thread_set(d, c) == {t \in DOMAIN d.threads : d.threads[t].category = c}
category_post_set(d, c) == {p \in DOMAIN d.posts : d.posts[p].category = c}
category_event_set(d, c) == {e \in DOMAIN d.events : d.events[e].category = c}

\* Deleting posts: Thread.last_post is on_delete=SET_NULL.
delete_posts(d, P) ==
    [d EXCEPT
        !.posts = Restrict(d.posts, DOMAIN d.posts \ P),
        !.threads = [t \in DOMAIN d.threads |->
            IF d.threads[t].last_post \in P
            THEN [d.threads[t] EXCEPT !.last_post = NULL]
            ELSE d.threads[t]]]

delete_events(d, E) == [d EXCEPT !.events = Restrict(d.events, DOMAIN d.events \ E)]

\* Deleting threads cascades over Post.thread and Event.thread (ForeignKey
\* without on_delete: CASCADE).
delete_threads(d, T) ==
    LET P == {p \in DOMAIN d.posts : d.posts[p].thread \in T}
        E == {e \in DOMAIN d.events : d.events[e].thread \in T}
        d1 == delete_events(delete_posts(d, P), E)
    IN [d1 EXCEPT !.threads = Restrict(d1.threads, DOMAIN d1.threads \ T)]

\* ------------------------------------------------------ signal handlers
\* A merge that moves the posts but forgets their category column.
merge_threads_posts_keep_category(d, sender, other_thread) ==
    [d EXCEPT !.posts = [p \in DOMAIN d.posts |->
        IF d.posts[p].thread = other_thread
        THEN [d.posts[p] EXCEPT !.thread = sender]
        ELSE d.posts[p]]]

\* merge_thread: other_thread.post_set.update(category=sender.category, thread=sender)
merge_threads_posts(d, sender, other_thread) ==
    [d EXCEPT !.posts = [p \in DOMAIN d.posts |->
        IF p \in post_set(d, other_thread)
        THEN [d.posts[p] EXCEPT !.category = d.threads[sender].category,
                                !.thread = sender]
        ELSE d.posts[p]]]

\* A move that updates the posts and forgets the events.
move_thread_content_posts_only(d, sender) ==
    [d EXCEPT !.posts = [p \in DOMAIN d.posts |->
        IF d.posts[p].thread = sender
        THEN [d.posts[p] EXCEPT !.category = d.threads[sender].category]
        ELSE d.posts[p]]]

\* move_thread: the posts and the events of sender take sender.category.
move_thread_content(d, sender) ==
    LET d1 == [d EXCEPT !.posts = [p \in DOMAIN d.posts |->
                    IF p \in post_set(d, sender)
                    THEN [d.posts[p] EXCEPT !.category = d.threads[sender].category]
                    ELSE d.posts[p]]]
    IN [d1 EXCEPT !.events = [e \in DOMAIN d1.events |->
                    IF e \in event_set(d1, sender)
                    THEN [d1.events[e] EXCEPT !.category = d1.threads[sender].category]
                    ELSE d1.events[e]]]

\* A delete that removes the events and posts of sender and leaves its threads.
delete_category_threads_keep_threads(d, sender) ==
    LET d1 == [d EXCEPT !.events = Restrict(d.events,
                    {e \in DOMAIN d.events : d.events[e].category # sender})]
    IN [d1 EXCEPT !.posts = Restrict(d1.posts,
                    {p \in DOMAIN d1.posts : d1.posts[p].category # sender})]

\* delete_category_content: events, then threads (cascading), then posts of sender.
delete_category_threads(d, sender) ==
    LET d1 == delete_events(d, category_event_set(d, sender))
        d2 == delete_threads(d1, category_thread_set(d1, sender))
    IN delete_posts(d2, category_post_set(d2, sender))

\* move_category_content: three bulk updates filtered on category=sender.
move_category_threads(d, sender, new_category) ==
    LET Moved(table) == [id \in DOMAIN table |->
            IF table[id].category = sender
            THEN [table[id] EXCEPT !.category = new_category]
            ELSE table[id]]
    IN [d EXCEPT !.threads = Moved(d.threads),
                 !.posts = Moved(d.posts),
                 !.events = Moved(d.events)]

\* ------------------------------------------------------------- actions
\* The mover saves thread.category = c, then sends move_thread.
MoveThread(t, c) ==
    /\ t \in DOMAIN threads
    /\ c # threads[t].category
    /\ Commit(move_thread_content(
            [DB EXCEPT !.threads[t].category = c], t))
    /\ last' = [op |-> "move_thread", sender |-> t, arg |-> c,
                rows |-> Cardinality(post_set(DB, t)) + Cardinality(event_set(DB, t))]
    /\ UNCHANGED <<users, handler, views,
                 browse, private>>

MergeThread(t, o) ==
    /\ t \in DOMAIN threads
    /\ o \in DOMAIN threads
    /\ t # o
    /\ Commit(merge_threads_posts(DB, t, o))
    /\ last' = [op |-> "merge_thread", sender |-> t, arg |-> o,
                rows |-> Cardinality(post_set(DB, o))]
    /\ UNCHANGED <<users, handler, views,
                 browse, private>>

MoveCategoryContent(c, n) ==
    /\ c # n
    /\ Commit(move_category_threads(DB, c, n))
    /\ last' = [op |-> "move_category_content", sender |-> c, arg |-> n,
                rows |-> Cardinality(category_thread_set(DB, c))]
    /\ UNCHANGED <<users, handler, views,
                 browse, private>>

DeleteCategoryContent(c) ==
    /\ Commit(delete_category_threads(DB, c))
    /\ last' = [op |-> "delete_category_content", sender |-> c, arg |-> NULL,
                rows |-> Cardinality(category_thread_set(DB, c))]
    /\ UNCHANGED <<users, handler, views,
                 browse, private>>

\* ------------------------------------------------- initial tables
\* No view has been called.
ViewsIdle ==
    /\ forums = << >>
    /\ listing = [user |-> NULL, forum |-> NULL, queryset |-> {}]
    /\ requests = << >>
    /\ locks = << >>

\* ForumView.dispatch has not been called.
BrowseIdle == browse = [pc |-> "idle"]

\* No private thread exists and no user is being deleted.
PrivateIdle ==
    /\ private_threads = {}
    /\ participants = {}
    /\ deletions = << >>

\* delete_user_threads has not been called.
HandlerIdle ==
    /\ pc = "idle"
    /\ deleting = NULL
    /\ recount_categories = {}
    /\ recount_threads = {}
    /\ changed_threads = {}
    /\ changed_categories = {}

NoSignal == [op |-> "none", sender |-> NULL, arg |-> NULL, rows |-> 0]

\* Every post and event was created in its thread's category, and a thread is
\* created together with its first post.
ConsistentTables(tcat, pthread, ethread) ==
    /\ threads = [t \in DOMAIN tcat |-> ThreadRow(tcat[t], NULL)]
    /\ posts = [p \in DOMAIN pthread |-> PostRow(tcat[pthread[p]], pthread[p], NULL)]
    /\ events = [e \in DOMAIN ethread |-> EventRow(tcat[ethread[e]], ethread[e], NULL)]

Init ==
    /\ \E P \in SUBSET PostIds : \E pthread \in [P -> ThreadIds] :
         LET T == {pthread[p] : p \in P} IN
         \E tcat \in [T -> CategoryIds] :
         \E E \in SUBSET EventIds : \E ethread \in [E -> T] :
            ConsistentTables(tcat, pthread, ethread)
    /\ categories = [c \in CategoryIds |-> CategoryRow]
    /\ users = [u \in UserIds |-> [username |-> u, slug |-> 10 + u]]
    /\ last = NoSignal
    /\ HandlerIdle
    /\ BrowseIdle
    /\ PrivateIdle
    /\ ViewsIdle

Next ==
    \/ \E t \in ThreadIds, c \in CategoryIds : MoveThread(t, c)
    \/ \E t \in ThreadIds, o \in ThreadIds : MergeThread(t, o)
    \/ \E c \in CategoryIds, n \in CategoryIds : MoveCategoryContent(c, n)
    \/ \E c \in CategoryIds : DeleteCategoryContent(c)

Spec == Init /\ [][Next]_vars

\* ------------------------------------------------------------- claims
\* C1: every remaining post and every remaining event has the category of the
\* thread it belongs to, after any sequence of move_thread, merge_thread,
\* move_category_content and delete_category_content.
CategoryConsistent ==
    /\ \A p \in DOMAIN posts :
        /\ posts[p].thread \in DOMAIN threads
        /\ posts[p].category = threads[posts[p].thread].category
    /\ \A e \in DOMAIN events :
        /\ events[e].thread \in DOMAIN threads
        /\ events[e].category = threads[events[e].thread].category

\* A merge across two categories has moved posts, and events exist.
CategoryConsistentWitness ==
    /\ last.op = "merge_thread"
    /\ last.rows > 0
    /\ last.arg \in DOMAIN threads
    /\ threads[last.sender].category # threads[last.arg].category
    /\ events # << >>

\* C4: after merge_thread for T with other_thread O (T # O), every post of O
\* belongs to T with T's category, O has no posts, the posts T already had
\* are unchanged, and no post is lost or duplicated.
MergePostcondition(t, o) ==
    /\ \A p \in post_set(DB, o) :
        /\ p \in DOMAIN posts'
        /\ posts'[p].thread = t
        /\ posts'[p].category = threads'[t].category
    /\ threads' = threads
    /\ \A p \in DOMAIN posts' : posts'[p].thread # o
    /\ \A p \in post_set(DB, t) : p \in DOMAIN posts' /\ posts'[p] = posts[p]
    /\ DOMAIN posts' = DOMAIN posts

\* A step is a merge exactly when it records merge_thread in last.
MergeMovesAllPosts ==
    [][last'.op = "merge_thread" =>
        MergePostcondition(last'.sender, last'.arg)]_vars

\* T kept posts of its own and received posts from a thread of another category.
MergeMovesAllPostsWitness ==
    /\ last.op = "merge_thread"
    /\ last.rows > 0
    /\ Cardinality(post_set(DB, last.sender)) > last.rows
    /\ threads[last.sender].category # threads[last.arg].category

\* C5: after delete_category_content for category C no event, thread or post
\* of C remains, and every thread, post and event of another category is
\* left as it was (nothing removed by cascade belongs to another category).
DeleteCategoryPostcondition(c) ==
    /\ \A t \in DOMAIN threads' : threads'[t].category # c
    /\ \A p \in DOMAIN posts' : posts'[p].category # c
    /\ \A e \in DOMAIN events' : events'[e].category # c
    /\ \A t \in DOMAIN threads : threads[t].category # c =>
            t \in DOMAIN threads' /\ threads'[t] = threads[t]
    /\ \A p \in DOMAIN posts : posts[p].category # c =>
            p \in DOMAIN posts' /\ posts'[p] = posts[p]
    /\ \A e \in DOMAIN events : events[e].category # c =>
            e \in DOMAIN events' /\ events'[e] = events[e]

thread_synchronize(d, t) ==
    LET P == post_set(d, t)
    IN [d EXCEPT !.threads[t].replies = IF P = {} THEN 0 ELSE Cardinality(P) - 1,
                 !.threads[t].last_post = Max(P)]

\* Category.synchronize(): the thread and post counts recomputed from the
\* category's rows.
category_synchronize(d, c) ==
    [d EXCEPT !.categories[c].threads = Cardinality(category_thread_set(d, c)),
              !.categories[c].posts = Cardinality(category_post_set(d, c))]

\* Posting: a new thread with its first post, counters kept by the poster.
start_thread(d, u, c) ==
    LET t == Cardinality(DOMAIN d.threads) + 1
        p == Cardinality(DOMAIN d.posts) + 1
    IN [threads |-> [x \in DOMAIN d.threads \cup {t} |->
                        IF x = t THEN [ThreadRow(c, u) EXCEPT !.last_post = p]
                        ELSE d.threads[x]],
        posts |-> [x \in DOMAIN d.posts \cup {p} |->
                        IF x = p THEN PostRow(c, t, u) ELSE d.posts[x]],
        events |-> d.events,
        categories |-> [d.categories EXCEPT ![c].threads = @ + 1, ![c].posts = @ + 1]]

\* Posting: a reply to thread t.
reply_thread(d, u, t) ==
    LET p == Cardinality(DOMAIN d.posts) + 1
        c == d.threads[t].category
    IN [threads |-> [d.threads EXCEPT ![t].replies = @ + 1, ![t].last_post = p],
        posts |-> [x \in DOMAIN d.posts \cup {p} |->
                        IF x = p THEN PostRow(c, t, u) ELSE d.posts[x]],
        events |-> d.events,
        categories |-> [d.categories EXCEPT ![c].posts = @ + 1]]

\* sender.thread_set / sender.post_set of a user.
user_thread_set(d, u) == {t \in DOMAIN d.threads : d.threads[t].starter = u}
user_post_set(d, u) == {p \in DOMAIN d.posts : d.posts[p].poster = u}

StartThread(u, c) ==
    /\ pc = "idle"
    /\ Cardinality(DOMAIN threads) < MaxThreads
    /\ Cardinality(DOMAIN posts) < MaxPosted
    /\ Commit(start_thread(DB, u, c))
    /\ UNCHANGED <<users, last, handler, views,
                 browse, private>>

ReplyThread(u, t) ==
    /\ pc = "idle"
    /\ t \in DOMAIN threads
    /\ Cardinality(DOMAIN posts) < MaxPosted
    /\ Commit(reply_thread(DB, u, t))
    /\ UNCHANGED <<users, last, handler, views,
                 browse, private>>

\* delete_user_content is sent with sender u.
DeleteUserContent(u) ==
    /\ pc = "idle"
    /\ pc' = "delete_threads"
    /\ deleting' = u
    /\ recount_categories' = {}
    /\ recount_threads' = {}
    /\ UNCHANGED <<tables, users, last, changed_threads, changed_categories, views,
                 browse, private>>

\* A first loop that deletes the thread and forgets its category.
DeleteUserThreadNoRecount(t) ==
    /\ pc = "delete_threads"
    /\ t \in user_thread_set(DB, deleting)
    /\ Commit(delete_threads(DB, {t}))
    /\ UNCHANGED <<users, last, pc, deleting, recount_categories, recount_threads,
                   changed_threads, changed_categories,
                   views,
                 browse, private>>

\* for thread in batch_delete(sender.thread_set.all(), 50): one iteration,
\* committed on its own.
DeleteUserThread(t) ==
    /\ pc = "delete_threads"
    /\ t \in user_thread_set(DB, deleting)
    /\ recount_categories' = recount_categories \cup {threads[t].category}
    /\ Commit(delete_threads(DB, {t}))
    /\ UNCHANGED <<users, last, pc, deleting, recount_threads,
                   changed_threads, changed_categories,
                   views,
                 browse, private>>

\* batch_delete ends when the queryset is empty.
UserThreadsDeleted ==
    /\ pc = "delete_threads"
    /\ user_thread_set(DB, deleting) = {}
    /\ pc' = "delete_posts"
    /\ UNCHANGED <<tables, users, last, deleting, recount_categories, recount_threads,
                   changed_threads, changed_categories,
                   views,
                 browse, private>>

\* A second loop that records the post's category and forgets its thread.
DeleteUserPostNoRecount(p) ==
    /\ pc = "delete_posts"
    /\ p \in user_post_set(DB, deleting)
    /\ recount_categories' = recount_categories \cup {posts[p].category}
    /\ Commit(delete_posts(DB, {p}))
    /\ UNCHANGED <<users, last, pc, deleting, recount_threads,
                   changed_threads, changed_categories,
                   views,
                 browse, private>>

\* for post in batch_delete(sender.post_set.all(), 50): one iteration,
\* committed on its own.
DeleteUserPost(p) ==
    /\ pc = "delete_posts"
    /\ p \in user_post_set(DB, deleting)
    /\ recount_categories' = recount_categories \cup {posts[p].category}
    /\ recount_threads' = recount_threads \cup {posts[p].thread}
    /\ Commit(delete_posts(DB, {p}))
    /\ UNCHANGED <<users, last, pc, deleting, changed_threads, changed_categories,
                   views,
                 browse, private>>

\* The second loop ends; changed_threads_qs is filtered on id__in=recount_threads.
UserPostsDeleted ==
    /\ pc = "delete_posts"
    /\ user_post_set(DB, deleting) = {}
    /\ pc' = "sync_threads"
    /\ changed_threads' = recount_threads \cap DOMAIN threads
    /\ UNCHANGED <<tables, users, last, deleting, recount_categories, recount_threads,
                   changed_categories,
                   views,
                 browse, private>>

\* for thread in batch_update(changed_threads_qs, 50): synchronize and save,
\* in primary key order.
SynchronizeThread(t) ==
    /\ pc = "sync_threads"
    /\ t \in changed_threads
    /\ \A x \in changed_threads : t <= x
    /\ Commit(thread_synchronize(DB, t))
    /\ changed_threads' = changed_threads \ {t}
    /\ UNCHANGED <<users, last, pc, deleting, recount_categories, recount_threads,
                   changed_categories,
                   views,
                 browse, private>>

ThreadsSynchronized ==
    /\ pc = "sync_threads"
    /\ changed_threads = {}
    /\ pc' = "sync_categories"
    /\ changed_categories' = recount_categories \cap DOMAIN categories
    /\ UNCHANGED <<tables, users, last, deleting, recount_categories, recount_threads,
                   changed_threads,
                   views,
                 browse, private>>

\* for category in Category.objects.filter(id__in=recount_categories)
SynchronizeCategory(c) ==
    /\ pc = "sync_categories"
    /\ c \in changed_categories
    /\ Commit(category_synchronize(DB, c))
    /\ changed_categories' = changed_categories \ {c}
    /\ UNCHANGED <<users, last, pc, deleting, recount_categories, recount_threads,
                   changed_threads,
                   views,
                 browse, private>>

\* delete_user_threads returns.
DeleteUserThreadsReturn ==
    /\ pc = "sync_categories"
    /\ changed_categories = {}
    /\ pc' = "done"
    /\ UNCHANGED <<tables, users, last, deleting, recount_categories, recount_threads,
                   changed_threads, changed_categories,
                   views,
                 browse, private>>

InitDeleteUser ==
    /\ threads = << >>
    /\ posts = << >>
    /\ events = << >>
    /\ categories = [c \in CategoryIds |-> CategoryRow]
    /\ users = [u \in UserIds |-> [username |-> u, slug |-> 10 + u]]
    /\ last = NoSignal
    /\ HandlerIdle
    /\ BrowseIdle
    /\ PrivateIdle
    /\ ViewsIdle

NextDeleteUser ==
    \/ \E u \in UserIds, c \in CategoryIds : StartThread(u, c)
    \/ \E u \in UserIds, t \in ThreadIds : ReplyThread(u, t)
    \/ \E u \in UserIds : DeleteUserContent(u)
    \/ \E t \in ThreadIds : DeleteUserThread(t)
    \/ UserThreadsDeleted
    \/ \E p \in 1..MaxPosted : DeleteUserPost(p)
    \/ UserPostsDeleted
    \/ \E t \in ThreadIds : SynchronizeThread(t)
    \/ ThreadsSynchronized
    \/ \E c \in CategoryIds : SynchronizeCategory(c)
    \/ DeleteUserThreadsReturn

SpecDeleteUser == InitDeleteUser /\ [][NextDeleteUser]_vars

\* A thread's counters agree with its stored posts.
ThreadCountersAgree(t) ==
    /\ threads[t].replies =
        (IF post_set(DB, t) = {} THEN 0 ELSE Cardinality(post_set(DB, t)) - 1)
    /\ threads[t].last_post = Max(post_set(DB, t))

\* A category's counters agree with its stored threads and posts.
CategoryCountersAgree(c) ==
    /\ categories[c].threads = Cardinality(category_thread_set(DB, c))
    /\ categories[c].posts = Cardinality(category_post_set(DB, c))

\* C2: when delete_user_threads has completed, no thread started by the user
\* and no post by the user remains, every thread a post was deleted from
\* and every category a thread or post was deleted from has been
\* synchronized, and the counters of every thread and category agree with
\* the rows stored.
DeleteUserCompleted ==
    pc = "done" =>
        /\ user_thread_set(DB, deleting) = {}
        /\ user_post_set(DB, deleting) = {}
        /\ changed_threads = {}
        /\ changed_categories = {}
        /\ \A t \in DOMAIN threads : ThreadCountersAgree(t)
        /\ \A c \in DOMAIN categories : CategoryCountersAgree(c)

\* The handler completed after deleting a post from a thread that still has posts.
DeleteUserCompletedWitness ==
    /\ pc = "done"
    /\ \E t \in recount_threads :
        /\ t \in DOMAIN threads
        /\ post_set(DB, t) # {}
        /\ threads[t].category \in recount_categories

\* C3 as stated: in every committed state, while delete_user_threads runs,
\* the counters of every remaining thread and category agree with the rows
\* stored.
CountersAlwaysAgree ==
    /\ \A t \in DOMAIN threads : ThreadCountersAgree(t)
    /\ \A c \in DOMAIN categories : CategoryCountersAgree(c)

\* The threads and categories the handler has recorded and not yet synchronized.
PendingThreads ==
    IF pc \in {"delete_threads", "delete_posts"} THEN recount_threads
    ELSE IF pc = "sync_threads" THEN changed_threads ELSE {}

PendingCategories ==
    IF pc \in {"delete_threads", "delete_posts", "sync_threads"} THEN recount_categories
    ELSE IF pc = "sync_categories" THEN changed_categories ELSE {}

\* C3 as amended: in every committed state, a thread or category whose
\* counters disagree with the rows stored is one the handler has recorded
\* in recount_threads or recount_categories and has not yet synchronized.
StaleCountersArePending ==
    /\ \A t \in DOMAIN threads : ThreadCountersAgree(t) \/ t \in PendingThreads
    /\ \A c \in DOMAIN categories : CategoryCountersAgree(c) \/ c \in PendingCategories

\* A committed state during the run in which a recorded thread and its
\* category both carry stale counters.
StaleCountersArePendingWitness ==
    /\ pc \in {"delete_posts", "sync_threads"}
    /\ \E t \in PendingThreads :
        /\ t \in DOMAIN threads
        /\ ~ThreadCountersAgree(t)
        /\ ~CategoryCountersAgree(threads[t].category)

\* ------------------------------------------------ username_changed
\* An update_usernames whose second update filters on starter, not last_poster.
update_usernames_wrong_filter(d, u, username, slug) ==
    [d EXCEPT
        !.threads = [t \in DOMAIN d.threads |->
            IF d.threads[t].starter = u
            THEN [d.threads[t] EXCEPT !.starter_name = username,
                                      !.starter_slug = slug,
                                      !.last_poster_name = username,
                                      !.last_poster_slug = slug]
            ELSE d.threads[t]],
        !.posts = [p \in DOMAIN d.posts |->
            LET p1 == IF d.posts[p].poster = u
                      THEN [d.posts[p] EXCEPT !.poster_name = username]
                      ELSE d.posts[p]
            IN IF p1.last_editor = u
               THEN [p1 EXCEPT !.last_editor_name = username,
                               !.last_editor_slug = slug]
               ELSE p1],
        !.events = [e \in DOMAIN d.events |->
            IF d.events[e].author = u
            THEN [d.events[e] EXCEPT !.author_name = username,
                                     !.author_slug = slug]
            ELSE d.events[e]]]

\* The five bulk updates of update_usernames, for sender u carrying
\* username and slug.
update_usernames(d, u, username, slug) ==
    LET t1 == [t \in DOMAIN d.threads |->
                IF d.threads[t].starter = u
                THEN [d.threads[t] EXCEPT !.starter_name = username,
                                          !.starter_slug = slug]
                ELSE d.threads[t]]
        t2 == [t \in DOMAIN t1 |->
                IF t1[t].last_poster = u
                THEN [t1[t] EXCEPT !.last_poster_name = username,
                                   !.last_poster_slug = slug]
                ELSE t1[t]]
        p1 == [p \in DOMAIN d.posts |->
                IF d.posts[p].poster = u
                THEN [d.posts[p] EXCEPT !.poster_name = username]
                ELSE d.posts[p]]
        p2 == [p \in DOMAIN p1 |->
                IF p1[p].last_editor = u
                THEN [p1[p] EXCEPT !.last_editor_name = username,
                                   !.last_editor_slug = slug]
                ELSE p1[p]]
        e1 == [e \in DOMAIN d.events |->
                IF d.events[e].author = u
                THEN [d.events[e] EXCEPT !.author_name = username,
                                         !.author_slug = slug]
                ELSE d.events[e]]
    IN [d EXCEPT !.threads = t2, !.posts = p2, !.events = e1]

\* The usernames and slugs a user can change to.
NewNames == {[username |-> 100 + k, slug |-> 200 + k] : k \in 1..MaxNames}

\* The name a user registered with.
FirstName(u) == [username |-> u, slug |-> 10 + u]

\* The name columns of a row whose user has been deleted (SET_NULL keeps them).
GoneName == [username |-> 9, slug |-> 19]

NameOf(u) == IF u = NULL THEN GoneName ELSE FirstName(u)

\* The user saves a new username and slug, then sends username_changed.
UsernameChanged(u, n) ==
    /\ users[u] # n
    /\ users' = [users EXCEPT ![u] = n]
    /\ Commit(update_usernames(DB, u, n.username, n.slug))
    /\ last' = [op |-> "username_changed", sender |-> u, arg |-> n.username,
                rows |-> Cardinality(user_thread_set(DB, u))
                         + Cardinality(user_post_set(DB, u))]
    /\ UNCHANGED <<handler, views,
                 browse, private>>

\* One thread, one post and one event, each foreign key to a user or NULL,
\* each name column the denormalized copy of that user's name.
InitUsernames ==
    /\ \E starter \in UserIds \cup {NULL}, last_poster \in UserIds \cup {NULL} :
        threads = [t \in {1} |->
            [ThreadRow(1, starter) EXCEPT
                !.starter_name = NameOf(starter).username,
                !.starter_slug = NameOf(starter).slug,
                !.last_poster = last_poster,
                !.last_poster_name = NameOf(last_poster).username,
                !.last_poster_slug = NameOf(last_poster).slug,
                !.last_post = 1]]
    /\ \E poster \in UserIds \cup {NULL}, last_editor \in UserIds \cup {NULL} :
        posts = [p \in {1} |->
            [PostRow(1, 1, poster) EXCEPT
                !.poster_name = NameOf(poster).username,
                !.last_editor = last_editor,
                !.last_editor_name = NameOf(last_editor).username,
                !.last_editor_slug = NameOf(last_editor).slug]]
    /\ \E author \in UserIds \cup {NULL} :
        events = [e \in {1} |->
            [EventRow(1, 1, author) EXCEPT
                !.author_name = NameOf(author).username,
                !.author_slug = NameOf(author).slug]]
    /\ categories = [c \in CategoryIds |-> CategoryRow]
    /\ users = [u \in UserIds |-> FirstName(u)]
    /\ last = NoSignal
    /\ HandlerIdle
    /\ BrowseIdle
    /\ PrivateIdle
    /\ ViewsIdle

NextUsernames ==
    \E u \in UserIds : \E n \in NewNames \cup {FirstName(u)} : UsernameChanged(u, n)

SpecUsernames == InitUsernames /\ [][NextUsernames]_vars

\* C6: after username_changed for user U, the name and slug columns of every
\* thread, post and event that reference U equal U's username and slug,
\* and the name and slug columns that do not reference U are unchanged.
UsernamesPostcondition(u) ==
    /\ DOMAIN threads' = DOMAIN threads
    /\ DOMAIN posts' = DOMAIN posts
    /\ DOMAIN events' = DOMAIN events
    /\ \A t \in DOMAIN threads :
        /\ threads'[t].starter = threads[t].starter
        /\ threads'[t].last_poster = threads[t].last_poster
        /\ IF threads[t].starter = u
           THEN /\ threads'[t].starter_name = users'[u].username
                /\ threads'[t].starter_slug = users'[u].slug
           ELSE /\ threads'[t].starter_name = threads[t].starter_name
                /\ threads'[t].starter_slug = threads[t].starter_slug
        /\ IF threads[t].last_poster = u
           THEN /\ threads'[t].last_poster_name = users'[u].username
                /\ threads'[t].last_poster_slug = users'[u].slug
           ELSE /\ threads'[t].last_poster_name = threads[t].last_poster_name
                /\ threads'[t].last_poster_slug = threads[t].last_poster_slug
    /\ \A p \in DOMAIN posts :
        /\ posts'[p].poster = posts[p].poster
        /\ posts'[p].last_editor = posts[p].last_editor
        /\ IF posts[p].poster = u
           THEN posts'[p].poster_name = users'[u].username
           ELSE posts'[p].poster_name = posts[p].poster_name
        /\ IF posts[p].last_editor = u
           THEN /\ posts'[p].last_editor_name = users'[u].username
                /\ posts'[p].last_editor_slug = users'[u].slug
           ELSE /\ posts'[p].last_editor_name = posts[p].last_editor_name
                /\ posts'[p].last_editor_slug = posts[p].last_editor_slug
    /\ \A e \in DOMAIN events :
        /\ events'[e].author = events[e].author
        /\ IF events[e].author = u
           THEN /\ events'[e].author_name = users'[u].username
                /\ events'[e].author_slug = users'[u].slug
           ELSE /\ events'[e].author_name = events[e].author_name
                /\ events'[e].author_slug = events[e].author_slug

UsernamesFollowUser ==
    [][\A u \in UserIds : \A n \in NewNames \cup {FirstName(u)} :
        UsernameChanged(u, n) => UsernamesPostcondition(u)]_vars

\* The renamed user started a thread whose last poster is another user, and
\* wrote a post last edited by another user: the starter and poster names
\* changed while the other user's names stayed.
UsernamesFollowUserWitness ==
    /\ last.op = "username_changed"
    /\ threads[1].starter = last.sender
    /\ threads[1].last_poster \notin {NULL, last.sender}
    /\ threads[1].starter_name = users[last.sender].username
    /\ threads[1].last_poster_name = users[threads[1].last_poster].username
    /\ posts[1].poster = last.sender
    /\ posts[1].last_editor \notin {NULL, last.sender}
    /\ posts[1].poster_name # posts[1].last_editor_name
    /\ events[1].author = NULL

\* ------------------------------------------------------- ForumView
\* The ACL flags add_acl attaches to a forum for the requesting user.
AclRow(can_review_moderated_content, can_hide_threads) ==
    [can_see |-> TRUE, can_browse |-> TRUE, can_start_threads |-> TRUE,
     can_review_moderated_content |-> can_review_moderated_content,
     can_hide_threads |-> can_hide_threads,
     can_see_own_threads |-> FALSE]

ForumRow(slug, acl) == [role |-> "forum", slug |-> slug, acl |-> acl]

\* request.user.is_authenticated(): the anonymous user has no id.
is_authenticated(user) == user # NULL

\* A filter whose last branch forgets condition_author.
filter_all_querysets_no_author(user, acl, queryset) ==
    IF is_authenticated(user)
    THEN LET can_mod == acl.can_review_moderated_content
             can_hide == acl.can_hide_threads
         IN IF ~can_mod /\ ~can_hide
            THEN {t \in queryset : threads[t].starter = user
                    \/ (~threads[t].is_moderated /\ ~threads[t].is_hidden)}
            ELSE IF ~can_mod
            THEN {t \in queryset : threads[t].starter = user \/ ~threads[t].is_moderated}
            ELSE IF ~can_hide
            THEN {t \in queryset : ~threads[t].is_hidden}
            ELSE queryset
    ELSE LET q1 == IF ~acl.can_review_moderated_content
                   THEN {t \in queryset : ~threads[t].is_moderated}
                   ELSE queryset
         IN IF ~acl.can_hide_threads
            THEN {t \in q1 : ~threads[t].is_hidden}
            ELSE q1

\* ForumView.filter_all_querysets, branch by branch.
filter_all_querysets(user, acl, queryset) ==
    IF is_authenticated(user)
    THEN LET can_mod == acl.can_review_moderated_content
             can_hide == acl.can_hide_threads
         IN IF ~can_mod /\ ~can_hide
            THEN {t \in queryset : threads[t].starter = user
                    \/ (~threads[t].is_moderated /\ ~threads[t].is_hidden)}
            ELSE IF ~can_mod
            THEN {t \in queryset : threads[t].starter = user \/ ~threads[t].is_moderated}
            ELSE IF ~can_hide
            THEN {t \in queryset : threads[t].starter = user \/ ~threads[t].is_hidden}
            ELSE queryset
    ELSE LET q1 == IF ~acl.can_review_moderated_content
                   THEN {t \in queryset : ~threads[t].is_moderated}
                   ELSE queryset
         IN IF ~acl.can_hide_threads
            THEN {t \in q1 : ~threads[t].is_hidden}
            ELSE q1

\* ForumView.get_threads_queryset: forum.thread_set.all()
get_threads_queryset(forum) == {t \in DOMAIN threads : threads[t].category = forum}

\* The thread list of forum f is filtered for a user (NULL: anonymous).
FilterAllQuerysets(user, f) ==
    /\ f \in DOMAIN forums
    /\ listing' = [user |-> user, forum |-> f,
                   queryset |-> filter_all_querysets(user, forums[f].acl,
                                                     get_threads_queryset(f))]
    /\ UNCHANGED <<tables, users, last, handler, forums, requests, locks,
                 browse, private>>

\* A forum of threads started by anyone, moderated or not, hidden or not,
\* seen under any combination of the two moderation permissions.
InitForumView ==
    /\ \E starter \in [ThreadIds -> UserIds \cup {NULL}],
          moderated \in [ThreadIds -> BOOLEAN],
          hidden \in [ThreadIds -> BOOLEAN] :
        threads = [t \in ThreadIds |->
            [ThreadRow(1, starter[t]) EXCEPT !.is_moderated = moderated[t],
                                             !.is_hidden = hidden[t]]]
    /\ posts = << >>
    /\ events = << >>
    /\ categories = [c \in CategoryIds |-> CategoryRow]
    /\ users = [u \in UserIds |-> [username |-> u, slug |-> 10 + u]]
    /\ last = NoSignal
    /\ HandlerIdle
    /\ BrowseIdle
    /\ PrivateIdle
    /\ \E can_mod \in BOOLEAN, can_hide \in BOOLEAN :
        forums = [f \in {1} |-> ForumRow(1, AclRow(can_mod, can_hide))]
    /\ listing = [user |-> NULL, forum |-> NULL, queryset |-> {}]
    /\ requests = << >>
    /\ locks = << >>

NextForumView ==
    \E user \in UserIds \cup {NULL}, f \in CategoryIds : FilterAllQuerysets(user, f)

SpecForumView == InitForumView /\ [][NextForumView]_vars

\* What the claim lets a user see of a thread.
MayBeListed(user, acl, t) ==
    \/ (is_authenticated(user) /\ threads[t].starter = user)
    \/ /\ (~threads[t].is_moderated \/ acl.can_review_moderated_content)
       /\ (~threads[t].is_hidden \/ acl.can_hide_threads)

\* C8: a thread of the forum passes filter_all_querysets if and only if the
\* authenticated user started it, or (it is not moderated or the ACL has
\* can_review_moderated_content) and (it is not hidden or the ACL has
\* can_hide_threads).
FilterIsPermissionGated ==
    listing.forum # NULL =>
        \A t \in get_threads_queryset(listing.forum) :
            t \in listing.queryset <=>
                MayBeListed(listing.user, forums[listing.forum].acl, t)

\* A user who may review moderated content and may not see hidden threads is
\* listed a hidden thread of their own and refused someone else's.
FilterIsPermissionGatedWitness ==
    /\ listing.forum # NULL
    /\ is_authenticated(listing.user)
    /\ forums[listing.forum].acl.can_review_moderated_content
    /\ ~forums[listing.forum].acl.can_hide_threads
    /\ \E t \in listing.queryset :
        threads[t].is_hidden /\ threads[t].starter = listing.user
    /\ \E t \in DOMAIN threads \ listing.queryset :
        threads[t].is_hidden /\ threads[t].starter # listing.user

\* ------------------------------------------------------ EditorView
\* No exception raised, no response made, no mode found.
NONE == "none"

START == "start"
REPLY == "reply"
EDIT == "edit"

\* kwargs of the URL: an absent argument is NULL.
Kwargs(forum_id, forum_slug, thread_id, thread_slug) ==
    [forum_id |-> forum_id, forum_slug |-> forum_slug,
     thread_id |-> thread_id, thread_slug |-> thread_slug]

\* A request as it arrives, with the locals of the view that serves it.
NewRequest(method, kwargs, submit) ==
    [method |-> method, kwargs |-> kwargs, submit |-> submit,
     pc |-> "dispatch", atomic |-> FALSE, transaction |-> "none",
     mode |-> NONE, forum |-> NULL, thread |-> NULL, allowed_by |-> NONE,
     formset |-> FALSE, is_valid |-> "not_called", saved |-> FALSE, updated |-> FALSE,
     interrupted |-> FALSE, error_message |-> FALSE,
     raised |-> NONE, raised_in |-> NONE, response |-> NONE]

\* get_object_or_404(queryset, id=forum_id, role='forum'): the row or NULL for 404.
fetch_forum(forum_id) ==
    IF forum_id \in DOMAIN forums /\ forums[forum_id].role = "forum"
    THEN forum_id ELSE NULL

\* get_object_or_404(queryset, id=thread_id)
fetch_thread(thread_id) ==
    IF thread_id \in DOMAIN threads THEN thread_id ELSE NULL

\* allow_see_forum, allow_browse_forum: raise unless the ACL grants it.
allow_see_forum(acl) == IF acl.can_see THEN NONE ELSE "PermissionDenied"
allow_browse_forum(acl) == IF acl.can_browse THEN NONE ELSE "PermissionDenied"
allow_see_thread(acl) == IF acl.can_see THEN NONE ELSE "PermissionDenied"
allow_start_thread(acl) == IF acl.can_start_threads THEN NONE ELSE "PermissionDenied"

\* validate_slug(model, slug): raises when the URL's slug is not the model's.
validate_slug(model_slug, slug) == IF model_slug = slug THEN NONE ELSE "OutdatedSlug"

\* check_forum_permissions: add_acl, allow_see_forum, allow_browse_forum in turn.
check_forum_permissions(forum) ==
    IF allow_see_forum(forums[forum].acl) # NONE
    THEN allow_see_forum(forums[forum].acl)
    ELSE allow_browse_forum(forums[forum].acl)

\* check_thread_permissions: add_acl, allow_see_thread.
check_thread_permissions(thread) == allow_see_thread(threads[thread].acl)

\* A get_forum that validates the slug before it checks the permissions.
get_forum_slug_first(kwargs) ==
    LET forum == fetch_forum(kwargs.forum_id)
    IN IF forum = NULL THEN [raised |-> "Http404", forum |-> NULL]
       ELSE IF kwargs.forum_slug # NULL
               /\ validate_slug(forums[forum].slug, kwargs.forum_slug) # NONE
       THEN [raised |-> "OutdatedSlug", forum |-> NULL]
       ELSE IF check_forum_permissions(forum) # NONE
       THEN [raised |-> check_forum_permissions(forum), forum |-> NULL]
       ELSE [raised |-> NONE, forum |-> forum]

\* ForumMixin.get_forum: what it raises, or the forum it returns.
get_forum(kwargs) ==
    LET forum == fetch_forum(kwargs.forum_id)
    IN IF forum = NULL THEN [raised |-> "Http404", forum |-> NULL]
       ELSE IF check_forum_permissions(forum) # NONE
       THEN [raised |-> check_forum_permissions(forum), forum |-> NULL]
       ELSE IF kwargs.forum_slug # NULL
               /\ validate_slug(forums[forum].slug, kwargs.forum_slug) # NONE
       THEN [raised |-> "OutdatedSlug", forum |-> NULL]
       ELSE [raised |-> NONE, forum |-> forum]

\* ThreadMixin.get_thread: what it raises, or the thread it returns.
get_thread(kwargs) ==
    LET thread == fetch_thread(kwargs.thread_id)
    IN IF thread = NULL THEN [raised |-> "Http404", thread |-> NULL]
       ELSE IF check_thread_permissions(thread) # NONE
       THEN [raised |-> check_thread_permissions(thread), thread |-> NULL]
       ELSE IF kwargs.thread_slug # NULL
               /\ validate_slug(threads[thread].slug, kwargs.thread_slug) # NONE
       THEN [raised |-> "OutdatedSlug", thread |-> NULL]
       ELSE [raised |-> NONE, thread |-> thread]

\* A find_mode that never asks for the lock.
is_post_never(method) == FALSE

\* find_mode: is_post = request.method == 'POST'
is_post(method) == method = "POST"

\* The row a request's fetch selects, if the row is there.
FetchedRow(kwargs) ==
    IF kwargs.forum_id # NULL
    THEN (IF fetch_forum(kwargs.forum_id) # NULL
          THEN {<<"forum", kwargs.forum_id>>} ELSE {})
    ELSE (IF fetch_thread(kwargs.thread_id) # NULL
          THEN {<<"thread", kwargs.thread_id>>} ELSE {})

\* queryset.select_for_update(): the rows fetched are locked for the
\* transaction, once no other transaction holds them.
select_for_update(r, lock, rows) ==
    IF lock
    THEN /\ \A row \in rows : locks[row] \in {NULL, r}
         /\ locks' = [row \in DOMAIN locks |-> IF row \in rows THEN r ELSE locks[row]]
    ELSE locks' = locks

\* EditorView.dispatch: real_dispatch runs inside atomic() for a POST.
Dispatch(r) ==
    /\ requests[r].pc = "dispatch"
    /\ requests' = [requests EXCEPT ![r].pc = "find_mode",
                                    ![r].atomic = (requests[r].method = "POST"),
                                    ![r].transaction =
                                        IF requests[r].method = "POST"
                                        THEN "open" ELSE "none"]
    /\ UNCHANGED <<tables, users, last, handler, forums, listing, locks,
                 browse, private>>

\* EditorView.find_mode
FindMode(r) ==
    LET kwargs == requests[r].kwargs IN
    /\ requests[r].pc = "find_mode"
    /\ select_for_update(r, is_post(requests[r].method), FetchedRow(kwargs))
    /\ IF kwargs.forum_id # NULL
       THEN LET got == get_forum(kwargs)
            IN requests' = [requests EXCEPT
                    ![r].mode = START,
                    ![r].forum = got.forum,
                    ![r].raised = got.raised,
                    ![r].raised_in = IF got.raised = NONE THEN NONE ELSE "get_forum",
                    ![r].pc = IF got.raised = NONE THEN "allow_mode" ELSE "exit"]
       ELSE LET got == get_thread(kwargs)
            IN requests' = [requests EXCEPT
                    ![r].thread = got.thread,
                    ![r].forum = IF got.raised = NONE
                                 THEN threads[got.thread].category ELSE NULL,
                    ![r].raised = IF got.raised = NONE
                                  THEN "UnboundLocalError" ELSE got.raised,
                    ![r].raised_in = IF got.raised = NONE
                                     THEN "find_mode" ELSE "get_thread",
                    ![r].pc = "exit"]
    /\ UNCHANGED <<tables, users, last, handler, forums, listing,
                 browse, private>>

\* EditorView.allow_start, allow_reply, allow_edit: what each raises.
allow_start(acl) == allow_start_thread(acl)
allow_reply == "NotImplementedError"
allow_edit == "NotImplementedError"

\* An allow_mode that lets START through unchecked.
allow_mode_start_unchecked(mode, acl) ==
    IF mode = START THEN [check |-> "allow_start", raised |-> NONE]
    ELSE IF mode = REPLY THEN [check |-> "allow_reply", raised |-> allow_reply]
    ELSE IF mode = EDIT THEN [check |-> "allow_edit", raised |-> allow_edit]
    ELSE [check |-> NONE, raised |-> NONE]

\* EditorView.allow_mode: the check it invokes for the mode and what the
\* check raises; acl is the ACL of the forum find_mode returned.
allow_mode(mode, acl) ==
    IF mode = START THEN [check |-> "allow_start", raised |-> allow_start(acl)]
    ELSE IF mode = REPLY THEN [check |-> "allow_reply", raised |-> allow_reply]
    ELSE IF mode = EDIT THEN [check |-> "allow_edit", raised |-> allow_edit]
    ELSE [check |-> NONE, raised |-> NONE]

\* EditorView.real_dispatch calls allow_mode with what find_mode returned.
AllowMode(r) ==
    LET allowed == allow_mode(requests[r].mode, forums[requests[r].forum].acl)
    IN
    /\ requests[r].pc = "allow_mode"
    /\ requests' = [requests EXCEPT
            ![r].allowed_by = allowed.check,
            ![r].raised = allowed.raised,
            ![r].raised_in = IF allowed.raised = NONE THEN NONE ELSE "allow_mode",
            ![r].pc = IF allowed.raised = NONE THEN "formset" ELSE "exit"]
    /\ UNCHANGED <<tables, users, last, handler, forums, listing, locks,
                 browse, private>>

\* A real_dispatch that redirects after a PostingInterrupt.
real_dispatch_redirect_on_interrupt(request, valid, interrupt) ==
    IF request.method = "POST"
    THEN IF request.submit /\ valid
         THEN [request EXCEPT !.formset = TRUE, !.is_valid = IF valid THEN "valid" ELSE "invalid", !.saved = TRUE,
                              !.interrupted = interrupt,
                              !.response = "redirect"]
         ELSE [request EXCEPT !.formset = TRUE,
                              !.is_valid = IF ~request.submit THEN "not_called"
                                           ELSE IF valid THEN "valid" ELSE "invalid",
                              !.updated = TRUE, !.response = "render"]
    ELSE [request EXCEPT !.formset = TRUE, !.response = "render"]

\* EditorView.real_dispatch from the EditorFormset on: valid is what
\* formset.is_valid() answers, interrupt whether formset.save() raises
\* PostingInterrupt.
real_dispatch(request, valid, interrupt) ==
    IF request.method = "POST"
    THEN IF request.submit /\ valid
         THEN IF ~interrupt
              THEN [request EXCEPT !.formset = TRUE, !.is_valid = IF valid THEN "valid" ELSE "invalid", !.saved = TRUE,
                                   !.response = "redirect"]
              ELSE [request EXCEPT !.formset = TRUE, !.is_valid = IF valid THEN "valid" ELSE "invalid", !.saved = TRUE,
                                   !.interrupted = TRUE, !.error_message = TRUE,
                                   !.response = "render"]
         ELSE [request EXCEPT !.formset = TRUE,
                              !.is_valid = IF ~request.submit THEN "not_called"
                                           ELSE IF valid THEN "valid" ELSE "invalid",
                              !.updated = TRUE, !.response = "render"]
    ELSE [request EXCEPT !.formset = TRUE, !.response = "render"]

RealDispatch(r, valid, interrupt) ==
    /\ requests[r].pc = "formset"
    /\ requests' = [requests EXCEPT
            ![r] = [real_dispatch(requests[r], valid, interrupt) EXCEPT !.pc = "exit"]]
    /\ UNCHANGED <<tables, users, last, handler, forums, listing, locks,
                 browse, private>>

\* Leaving dispatch: atomic() commits on a return and rolls back on an
\* exception, and the transaction's row locks are released.
Exit(r) ==
    /\ requests[r].pc = "exit"
    /\ requests' = [requests EXCEPT
            ![r].pc = "done",
            ![r].transaction =
                IF ~requests[r].atomic THEN "none"
                ELSE IF requests[r].raised = NONE THEN "committed" ELSE "rolled_back"]
    /\ locks' = [row \in DOMAIN locks |-> IF locks[row] = r THEN NULL ELSE locks[row]]
    /\ UNCHANGED <<tables, users, last, handler, forums, listing,
                 browse, private>>

Methods == {"GET", "POST"}

\* The rows select_for_update can lock.
LockableRows == {<<"forum", f>> : f \in DOMAIN forums}
                    \cup {<<"thread", t>> : t \in DOMAIN threads}

\* One request for the editor: any method, a forum_id or a thread_id of a
\* row that exists or not, with no slug, the model's slug or an outdated one.
EditorKwargs ==
    {Kwargs(f, s, NULL, NULL) : f \in {1, 2, 3}, s \in {NULL, 1, 2}}
        \cup {Kwargs(NULL, NULL, t, s) : t \in {1, 2}, s \in {NULL, 1, 2}}

InitEditor ==
    /\ \E can_see \in BOOLEAN :
        threads = [t \in {1} |-> [ThreadRow(1, NULL) EXCEPT !.acl = [can_see |-> can_see]]]
    /\ posts = << >>
    /\ events = << >>
    /\ categories = [c \in CategoryIds |-> CategoryRow]
    /\ users = [u \in UserIds |-> [username |-> u, slug |-> 10 + u]]
    /\ last = NoSignal
    /\ HandlerIdle
    /\ BrowseIdle
    /\ PrivateIdle
    /\ \E can_see \in BOOLEAN, can_browse \in BOOLEAN, can_start \in BOOLEAN :
        forums = [f \in {1, 2} |->
            IF f = 1
            THEN ForumRow(1, [AclRow(TRUE, TRUE) EXCEPT !.can_see = can_see,
                                                        !.can_browse = can_browse,
                                                        !.can_start_threads = can_start])
            ELSE [ForumRow(1, AclRow(TRUE, TRUE)) EXCEPT !.role = "category"]]
    /\ listing = [user |-> NULL, forum |-> NULL, queryset |-> {}]
    /\ \E method \in Methods, kwargs \in EditorKwargs, submit \in BOOLEAN :
        /\ (method = "GET" => ~submit)
        /\ requests = [r \in {1} |-> NewRequest(method, kwargs, submit)]
    /\ locks = [row \in LockableRows |-> NULL]

NextEditor ==
    \/ \E r \in DOMAIN requests : Dispatch(r)
    \/ \E r \in DOMAIN requests : FindMode(r)
    \/ \E r \in DOMAIN requests : AllowMode(r)
    \/ \E r \in DOMAIN requests, valid \in BOOLEAN, interrupt \in BOOLEAN :
            RealDispatch(r, valid, interrupt)
    \/ \E r \in DOMAIN requests : Exit(r)

SpecEditor == InitEditor /\ [][NextEditor]_vars

\* The permission checks get_forum and get_thread run on the row a request names.
ForumPermitted(f) == forums[f].acl.can_see /\ forums[f].acl.can_browse
ThreadPermitted(t) == threads[t].acl.can_see

\* find_mode has run for request r.
FoundMode(r) == requests[r].pc \in {"allow_mode", "formset", "exit", "done"}

\* C9: get_forum and get_thread return an object only if it exists (a forum:
\* with the given id and role 'forum', otherwise 404) and its permission
\* checks did not raise; the permission checks run before slug validation,
\* so a user who lacks permission gets the denial and never the slug's
\* outcome; no object is returned when get_forum or get_thread raises.
GetObjectChecksPermissionFirst ==
    \A r \in DOMAIN requests :
        LET q == requests[r]
            f == q.kwargs.forum_id
            t == q.kwargs.thread_id
        IN FoundMode(r) =>
            /\ (f # NULL /\ q.forum # NULL) =>
                /\ q.forum = f
                /\ f \in DOMAIN forums
                /\ forums[f].role = "forum"
                /\ ForumPermitted(f)
                /\ q.kwargs.forum_slug \in {NULL, forums[f].slug}
            /\ (f # NULL /\ (f \notin DOMAIN forums \/ forums[f].role # "forum")) =>
                (q.raised = "Http404" /\ q.raised_in = "get_forum")
            /\ (f # NULL /\ fetch_forum(f) # NULL /\ ~ForumPermitted(f)) =>
                (q.raised = "PermissionDenied" /\ q.raised_in = "get_forum")
            /\ q.raised_in = "get_forum" => q.forum = NULL
            /\ (t # NULL /\ q.thread # NULL) =>
                /\ q.thread = t
                /\ t \in DOMAIN threads
                /\ ThreadPermitted(t)
                /\ q.kwargs.thread_slug \in {NULL, threads[t].slug}
            /\ (t # NULL /\ t \notin DOMAIN threads) =>
                (q.raised = "Http404" /\ q.raised_in = "get_thread")
            /\ (t # NULL /\ t \in DOMAIN threads /\ ~ThreadPermitted(t)) =>
                (q.raised = "PermissionDenied" /\ q.raised_in = "get_thread")
            /\ q.raised_in = "get_thread" => (q.thread = NULL /\ q.forum = NULL)

\* A user without permission asked for a forum under an outdated slug and
\* was denied.
GetObjectChecksPermissionFirstWitness ==
    \E r \in DOMAIN requests :
        /\ requests[r].pc = "done"
        /\ requests[r].kwargs.forum_id = 1
        /\ requests[r].kwargs.forum_slug \notin {NULL, forums[1].slug}
        /\ ~ForumPermitted(1)
        /\ requests[r].raised = "PermissionDenied"
        /\ requests[r].raised_in = "get_forum"
        /\ requests[r].forum = NULL

\* C10: on a POST, formset.save() is called only when 'submit' is in the POST
\* data and the formset is valid; a save that succeeds is answered with a
\* redirect; a save that raises PostingInterrupt is answered with the
\* error message and the editor rendered, and the exception does not
\* propagate; without 'submit' or with an invalid formset, update() is
\* called, save() is not, and the editor is rendered.
RealDispatchOutcome ==
    \A r \in DOMAIN requests :
        LET q == requests[r]
        IN (q.formset /\ q.method = "POST") =>
            /\ q.saved <=> (q.submit /\ q.is_valid = "valid")
            /\ (q.saved /\ ~q.interrupted) =>
                (q.response = "redirect" /\ ~q.error_message)
            /\ q.interrupted =>
                (q.saved /\ q.raised = NONE /\ q.error_message
                    /\ q.response = "render")
            /\ (~q.submit \/ q.is_valid = "invalid") =>
                (q.updated /\ ~q.saved /\ q.response = "render")
            /\ q.updated => ~q.saved

\* A submitted, valid POST whose save raised PostingInterrupt.
RealDispatchOutcomeWitness ==
    \E r \in DOMAIN requests :
        /\ requests[r].pc = "done"
        /\ requests[r].method = "POST"
        /\ requests[r].submit
        /\ requests[r].interrupted
        /\ requests[r].response = "render"
        /\ requests[r].transaction = "committed"

\* ------------------------------------------- concurrent editor requests
\* Requests for the editor of forum 1 or of thread 1, by any method, served
\* concurrently.
LockKwargs == {Kwargs(1, NULL, NULL, NULL), Kwargs(NULL, NULL, 1, NULL)}

InitEditorLocks ==
    /\ threads = [t \in {1} |-> ThreadRow(1, NULL)]
    /\ posts = << >>
    /\ events = << >>
    /\ categories = [c \in CategoryIds |-> CategoryRow]
    /\ users = [u \in UserIds |-> [username |-> u, slug |-> 10 + u]]
    /\ last = NoSignal
    /\ HandlerIdle
    /\ BrowseIdle
    /\ PrivateIdle
    /\ forums = [f \in {1} |-> ForumRow(1, AclRow(TRUE, TRUE))]
    /\ listing = [user |-> NULL, forum |-> NULL, queryset |-> {}]
    /\ \E method \in [1..MaxRequests -> Methods],
          kwargs \in [1..MaxRequests -> LockKwargs] :
        requests = [r \in 1..MaxRequests |->
                        NewRequest(method[r], kwargs[r], method[r] = "POST")]
    /\ locks = [row \in LockableRows |-> NULL]

SpecEditorLocks == InitEditorLocks /\ [][NextEditor]_vars

\* Request r is inside dispatch.
Running(r) == requests[r].pc \in {"find_mode", "allow_mode", "formset", "exit"}

\* Request r has fetched its row and not yet left dispatch.
HasRow(r) == requests[r].pc \in {"allow_mode", "formset", "exit"}

\* C7: real_dispatch runs inside one atomic transaction exactly when the
\* method is POST, and the forum or thread is fetched under a row lock
\* exactly when the method is POST: of two concurrent POSTs on the same
\* row the second does not obtain the row until the first has committed or
\* rolled back, and a GET takes no lock and opens no transaction.
EditorWritesSerialized ==
    /\ \A r \in DOMAIN requests :
        /\ Running(r) =>
            (requests[r].atomic <=> requests[r].method = "POST")
        /\ Running(r) =>
            (requests[r].transaction = "open" <=> requests[r].method = "POST")
        /\ requests[r].method = "GET" =>
            /\ requests[r].transaction = "none"
            /\ \A row \in DOMAIN locks : locks[row] # r
        /\ (requests[r].method = "POST" /\ HasRow(r)) =>
            \A row \in FetchedRow(requests[r].kwargs) : locks[row] = r
        /\ \A row \in DOMAIN locks : locks[row] = r => Running(r)
    /\ \A r1 \in DOMAIN requests, r2 \in DOMAIN requests :
        (/\ r1 # r2
         /\ requests[r1].method = "POST"
         /\ requests[r2].method = "POST"
         /\ requests[r1].kwargs = requests[r2].kwargs
         /\ HasRow(r1)) => ~HasRow(r2)

\* One POST holds the forum's row inside its transaction while a second
\* POST on the same forum waits in find_mode.
EditorWritesSerializedWitness ==
    \E r1 \in DOMAIN requests, r2 \in DOMAIN requests :
        /\ r1 # r2
        /\ requests[r1].method = "POST"
        /\ requests[r2].method = "POST"
        /\ requests[r1].kwargs.forum_id = 1
        /\ requests[r2].kwargs.forum_id = 1
        /\ requests[r1].pc = "formset"
        /\ locks[<<"forum", 1>>] = r1
        /\ requests[r2].pc = "find_mode"
        /\ requests[r2].transaction = "open"

\* ------------------------------------------------- ForumView.dispatch
\* Thread.weight of an announcement (a pinned thread has 1, any other 0).
ANNOUNCEMENT == 2

\* OrderThreadsMixin.order_by: the keys, in the order of the tuple.
order_by == <<"recently-replied", "last-replied", "most-replied",
              "least-replied", "newest", "oldest">>

OrderingKeys == {order_by[i] : i \in DOMAIN order_by}

\* kwargs of the forum URL: an absent 'sort' is NONE, an absent 'page' NULL.
ForumKwargs(forum_id, forum_slug, sort, page) ==
    [forum_id |-> forum_id, forum_slug |-> forum_slug, sort |-> sort, page |-> page]

\* OrderThreadsMixin.get_ordering
get_ordering(kwargs) ==
    IF kwargs.sort \in OrderingKeys THEN kwargs.sort ELSE order_by[1]

\* An is_ordering_default that also takes an absent 'sort' for the default.
is_ordering_default_or_absent(sort) == sort \in {order_by[1], NONE}

\* OrderThreadsMixin.is_ordering_default
is_ordering_default(sort) == order_by[1] = sort

\* A column of an order_by() call and its direction.
Asc(column) == [column |-> column, desc |-> FALSE]
Desc(column) == [column |-> column, desc |-> TRUE]

\* ForumView.order_querysets: the order_by() columns of the two querysets.
\* The six ifs exclude one another; with no key matched the querysets keep
\* the '-last_post_id' of get_threads_queryset.
order_querysets(ordering) ==
    IF ordering = "oldest"
    THEN [threads |-> <<Asc("weight"), Asc("id")>>, announcements |-> <<Asc("id")>>]
    ELSE IF ordering = "newest"
    THEN [threads |-> <<Desc("weight"), Desc("id")>>, announcements |-> <<Desc("id")>>]
    ELSE IF ordering = "least-replied"
    THEN [threads |-> <<Asc("weight"), Asc("replies")>>,
          announcements |-> <<Asc("replies")>>]
    ELSE IF ordering = "most-replied"
    THEN [threads |-> <<Desc("weight"), Desc("replies")>>,
          announcements |-> <<Desc("replies")>>]
    ELSE IF ordering = "last-replied"
    THEN [threads |-> <<Asc("weight"), Asc("last_post")>>,
          announcements |-> <<Asc("last_post")>>]
    ELSE IF ordering = "recently-replied"
    THEN [threads |-> <<Desc("weight"), Desc("last_post")>>,
          announcements |-> <<Desc("last_post")>>]
    ELSE [threads |-> <<Desc("last_post")>>, announcements |-> <<Desc("last_post")>>]

\* The value of a column of thread t.
ColumnOf(t, column) ==
    IF column = "id" THEN t
    ELSE IF column = "weight" THEN threads[t].weight
    ELSE IF column = "replies" THEN threads[t].replies
    ELSE threads[t].last_post

\* ORDER BY: row a comes before row b under the columns from the i-th on;
\* rows equal in every column come in an order SQL leaves open, pk_desc
\* being the one the database takes.
RECURSIVE RowBefore(_, _, _, _, _)
RowBefore(a, b, columns, i, pk_desc) ==
    IF i > Len(columns)
    THEN (IF pk_desc THEN a > b ELSE a < b)
    ELSE LET va == ColumnOf(a, columns[i].column)
             vb == ColumnOf(b, columns[i].column)
         IN IF va = vb THEN RowBefore(a, b, columns, i + 1, pk_desc)
            ELSE IF columns[i].desc THEN va > vb ELSE va < vb

\* The rows of a queryset in the order of its order_by() columns.
Ordered(queryset, columns, pk_desc) ==
    [i \in 1..Cardinality(queryset) |->
        CHOOSE a \in queryset :
            Cardinality({b \in queryset : RowBefore(b, a, columns, 1, pk_desc)}) = i - 1]

\* paginate(object_list, page, per_page, orphans): the page's slice of the
\* list, a short last page being joined to the one before it; Http404 for a
\* page past the last.
paginate(object_list, page, per_page, orphans) ==
    LET number == IF page = NULL THEN 1 ELSE page
        count == Len(object_list)
        hits == IF count - orphans < 1 THEN 1 ELSE count - orphans
        num_pages == (hits + per_page - 1) \div per_page
        bottom == (number - 1) * per_page
        top == IF bottom + per_page + orphans >= count THEN count
               ELSE bottom + per_page
    IN IF number > num_pages
       THEN [raised |-> "Http404", object_list |-> << >>]
       ELSE [raised |-> NONE, object_list |-> SubSeq(object_list, bottom + 1, top)]

\* A filter_threads_queryset that lets an anonymous user through.
filter_threads_queryset_authenticated_only(user, acl, queryset) ==
    IF acl.can_see_own_threads /\ is_authenticated(user)
    THEN {t \in queryset : threads[t].starter # NULL /\ threads[t].starter = user}
    ELSE queryset

\* ForumView.filter_threads_queryset. A NULL starter_id equals no id, and
\* no user has the id 0 the anonymous branch filters on.
filter_threads_queryset(user, acl, queryset) ==
    IF acl.can_see_own_threads
    THEN IF is_authenticated(user)
         THEN {t \in queryset : threads[t].starter # NULL /\ threads[t].starter = user}
         ELSE {t \in queryset : threads[t].starter # NULL /\ threads[t].starter = 0}
    ELSE queryset

\* ForumView.filter_announcements_queryset
filter_announcements_queryset(user, acl, queryset) == queryset

\* A get_threads that takes the announcements from the unfiltered queryset
\* and paginates every thread.
get_threads_paginate_all(user, forum, kwargs, ordering, pk_desc) ==
    LET all == get_threads_queryset(forum)
        queryset == filter_all_querysets(user, forums[forum].acl, all)
        announcements_qs == {t \in all : threads[t].weight = ANNOUNCEMENT}
        threads_qs == filter_threads_queryset(user, forums[forum].acl, queryset)
        columns == order_querysets(ordering)
        page == paginate(Ordered(threads_qs, columns.threads, pk_desc),
                         kwargs.page, MaxPerPage, MaxOrphans)
    IN [raised |-> page.raised,
        threads_qs |-> Ordered(threads_qs, columns.threads, pk_desc),
        page |-> page.object_list,
        threads |-> IF page.raised # NONE THEN << >>
                    ELSE Ordered(announcements_qs, columns.announcements, pk_desc)
                            \o page.object_list]

\* ForumView.get_threads: the page and the list of threads to render.
get_threads(user, forum, kwargs, ordering, pk_desc) ==
    LET queryset == filter_all_querysets(user, forums[forum].acl,
                                         get_threads_queryset(forum))
        announcements_qs == filter_announcements_queryset(user, forums[forum].acl,
            {t \in queryset : threads[t].weight = ANNOUNCEMENT})
        threads_qs == filter_threads_queryset(user, forums[forum].acl,
            {t \in queryset : threads[t].weight < ANNOUNCEMENT})
        columns == order_querysets(ordering)
        page == paginate(Ordered(threads_qs, columns.threads, pk_desc),
                         kwargs.page, MaxPerPage, MaxOrphans)
    IN [raised |-> page.raised,
        threads_qs |-> Ordered(threads_qs, columns.threads, pk_desc),
        page |-> page.object_list,
        threads |-> IF page.raised # NONE THEN << >>
                    ELSE Ordered(announcements_qs, columns.announcements, pk_desc)
                            \o page.object_list]

\* ForumView.dispatch, whole: what it raises or answers for a user's request.
forum_view_dispatch(user, kwargs, pk_desc) ==
    LET got == get_forum(kwargs)
        ordering == get_ordering(kwargs)
        answer == [raised |-> NONE, response |-> NONE, location |-> kwargs,
                   ordering |-> NONE, threads_qs |-> << >>, page |-> << >>,
                   threads |-> << >>]
    IN IF got.raised # NONE
       THEN [answer EXCEPT !.raised = got.raised]
       ELSE IF is_ordering_default(kwargs.sort)
       THEN [answer EXCEPT !.response = "redirect",
                           !.location = [kwargs EXCEPT !.sort = NONE]]
       ELSE LET listed == get_threads(user, got.forum, kwargs, ordering, pk_desc)
            IN IF listed.raised # NONE
               THEN [answer EXCEPT !.raised = listed.raised]
               ELSE [answer EXCEPT !.response = "render",
                                   !.ordering = ordering,
                                   !.threads_qs = listed.threads_qs,
                                   !.page = listed.page,
                                   !.threads = listed.threads]

\* A user (NULL: anonymous) requests a forum's thread list.
ForumRequest(user, kwargs) ==
    /\ browse.pc = "idle"
    /\ browse' = [pc |-> "dispatch", user |-> user, kwargs |-> kwargs,
                  requested |-> kwargs, redirects |-> 0,
                  raised |-> NONE, response |-> NONE, location |-> kwargs,
                  ordering |-> NONE, threads_qs |-> << >>, page |-> << >>,
                  threads |-> << >>]
    /\ UNCHANGED <<tables, users, last, handler, views, private>>

\* ForumView.dispatch serves the request.
ForumDispatch(pk_desc) ==
    /\ browse.pc = "dispatch"
    /\ LET answer == forum_view_dispatch(browse.user, browse.kwargs, pk_desc)
       IN browse' = [browse EXCEPT !.pc = "responded",
                                   !.raised = answer.raised,
                                   !.response = answer.response,
                                   !.location = answer.location,
                                   !.ordering = answer.ordering,
                                   !.threads_qs = answer.threads_qs,
                                   !.page = answer.page,
                                   !.threads = answer.threads]
    /\ UNCHANGED <<tables, users, last, handler, views, private>>

\* The browser follows the redirect: the same user requests its location.
FollowRedirect ==
    /\ browse.pc = "responded"
    /\ browse.response = "redirect"
    /\ browse.redirects < MaxRedirects
    /\ browse' = [browse EXCEPT !.pc = "dispatch",
                                !.kwargs = browse.location,
                                !.redirects = browse.redirects + 1,
                                !.response = NONE]
    /\ UNCHANGED <<tables, users, last, handler, views, private>>

\* The values a request's 'sort' can take: a key, another word, or absent.
Sorts == OrderingKeys \cup {"hottest", NONE}

\* A forum of threads started by anyone, plain, pinned or announced, seen
\* with or without the forum's own-threads flag.
InitForumBrowse ==
    /\ \E starter \in [ThreadIds -> UserIds \cup {NULL}],
          weight \in [ThreadIds -> 0..ANNOUNCEMENT] :
        threads = [t \in ThreadIds |->
            [ThreadRow(1, starter[t]) EXCEPT !.weight = weight[t], !.last_post = t]]
    /\ posts = << >>
    /\ events = << >>
    /\ categories = [c \in CategoryIds |-> CategoryRow]
    /\ users = [u \in UserIds |-> [username |-> u, slug |-> 10 + u]]
    /\ last = NoSignal
    /\ HandlerIdle
    /\ PrivateIdle
    /\ BrowseIdle
    /\ \E own \in BOOLEAN :
        forums = [f \in {1} |->
            ForumRow(1, [AclRow(TRUE, TRUE) EXCEPT !.can_see_own_threads = own])]
    /\ listing = [user |-> NULL, forum |-> NULL, queryset |-> {}]
    /\ requests = << >>
    /\ locks = << >>

NextForumBrowse ==
    \/ \E user \in UserIds \cup {NULL}, sort \in {"recently-replied", "oldest", NONE} :
            ForumRequest(user, ForumKwargs(1, NULL, sort, NULL))
    \/ \E pk_desc \in BOOLEAN : ForumDispatch(pk_desc)
    \/ FollowRedirect

SpecForumBrowse == InitForumBrowse /\ [][NextForumBrowse]_vars

\* The non-announcement threads of the rendered forum that pass
\* filter_all_querysets.
VisiblePlainThreads ==
    {t \in filter_all_querysets(browse.user, forums[browse.kwargs.forum_id].acl,
                                get_threads_queryset(browse.kwargs.forum_id)) :
        threads[t].weight < ANNOUNCEMENT}

\* C15: with can_see_own_threads set, the non-announcement part of the
\* listing holds only threads the requesting user started and is empty for
\* an anonymous user; without the flag it is not restricted by starter;
\* announcements are never restricted by the flag.
OwnThreadsOnlyWhenFlagged ==
    (browse.pc = "responded" /\ browse.response = "render") =>
        LET acl == forums[browse.kwargs.forum_id].acl
            listed == {browse.threads_qs[i] : i \in DOMAIN browse.threads_qs}
            rendered == {browse.threads[i] : i \in DOMAIN browse.threads}
        IN /\ acl.can_see_own_threads =>
                /\ listed = {t \in VisiblePlainThreads :
                                /\ is_authenticated(browse.user)
                                /\ threads[t].starter = browse.user}
                /\ ~is_authenticated(browse.user) => listed = {}
           /\ ~acl.can_see_own_threads => listed = VisiblePlainThreads
           /\ {t \in rendered : threads[t].weight = ANNOUNCEMENT} =
                {t \in get_threads_queryset(browse.kwargs.forum_id) :
                    threads[t].weight = ANNOUNCEMENT}

\* Under the flag a user is refused another user's thread and shown
\* another user's announcement.
OwnThreadsOnlyWhenFlaggedWitness ==
    /\ browse.pc = "responded"
    /\ browse.response = "render"
    /\ forums[1].acl.can_see_own_threads
    /\ is_authenticated(browse.user)
    /\ browse.threads_qs = << >>
    /\ \E t \in VisiblePlainThreads : threads[t].starter \notin {NULL, browse.user}
    /\ \E i \in DOMAIN browse.threads :
        /\ threads[browse.threads[i]].weight = ANNOUNCEMENT
        /\ threads[browse.threads[i]].starter \notin {NULL, browse.user}

\* ------------------------------------------------- pages of a forum
ListedIds == 1..MaxListed

\* The pages a request asks for: none (the first) or a later one.
Pages == {NULL} \cup (1 + 1)..MaxListed

\* The rendered sequence holds no thread twice.
NoDuplicates(list) ==
    \A i \in DOMAIN list, j \in DOMAIN list : list[i] = list[j] => i = j

\* The set of the elements of a sequence.
Range(list) == {list[i] : i \in DOMAIN list}

\* A forum of plain, pinned and announced threads, hidden or not, read by
\* an anonymous user who may not see hidden threads.
InitForumPages ==
    /\ \E weight \in [ListedIds -> 0..ANNOUNCEMENT], hidden \in [ListedIds -> BOOLEAN] :
        threads = [t \in ListedIds |->
            [ThreadRow(1, NULL) EXCEPT !.weight = weight[t],
                                       !.is_hidden = hidden[t],
                                       !.last_post = t]]
    /\ posts = << >>
    /\ events = << >>
    /\ categories = [c \in CategoryIds |-> CategoryRow]
    /\ users = [u \in UserIds |-> [username |-> u, slug |-> 10 + u]]
    /\ last = NoSignal
    /\ HandlerIdle
    /\ PrivateIdle
    /\ BrowseIdle
    /\ forums = [f \in {1} |-> ForumRow(1, AclRow(TRUE, FALSE))]
    /\ listing = [user |-> NULL, forum |-> NULL, queryset |-> {}]
    /\ requests = << >>
    /\ locks = << >>

NextForumPages ==
    \/ \E sort \in {"recently-replied", "oldest", NONE}, page \in Pages :
            ForumRequest(NULL, ForumKwargs(1, NULL, sort, page))
    \/ \E pk_desc \in BOOLEAN : ForumDispatch(pk_desc)
    \/ FollowRedirect

SpecForumPages == InitForumPages /\ [][NextForumPages]_vars

\* The threads of the rendered forum that pass filter_all_querysets.
VisibleThreads ==
    filter_all_querysets(browse.user, forums[browse.kwargs.forum_id].acl,
                         get_threads_queryset(browse.kwargs.forum_id))

VisibleAnnouncements == {t \in VisibleThreads : threads[t].weight = ANNOUNCEMENT}

\* C12: in the list get_threads returns, every visible announcement comes
\* before every thread that is no announcement; all announcements are on
\* every page; only threads with weight < ANNOUNCEMENT are paginated; no
\* thread is listed twice.
AnnouncementsLeadEveryPage ==
    (browse.pc = "responded" /\ browse.response = "render") =>
        LET list == browse.threads
            n == Cardinality(VisibleAnnouncements)
        IN /\ Len(list) >= n
           /\ {list[i] : i \in 1..n} = VisibleAnnouncements
           /\ \A i \in DOMAIN list :
                i > n => threads[list[i]].weight < ANNOUNCEMENT
           /\ SubSeq(list, n + 1, Len(list)) = browse.page
           /\ Len(browse.page) <= MaxPerPage + MaxOrphans
           /\ Range(browse.threads_qs) =
                {t \in VisibleThreads : threads[t].weight < ANNOUNCEMENT}
           /\ NoDuplicates(list)

\* A later page is rendered: the announcement leads it and a thread that
\* is no announcement, and was not on the first page, follows.
AnnouncementsLeadEveryPageWitness ==
    /\ browse.pc = "responded"
    /\ browse.response = "render"
    /\ browse.kwargs.page = 1 + 1
    /\ VisibleAnnouncements # {}
    /\ Len(browse.threads) > Cardinality(VisibleAnnouncements)
    /\ browse.page # SubSeq(browse.threads_qs, 1, Len(browse.page))

\* ------------------------------------------------- orderings of a forum
\* The order of the threads' last posts against the order of their ids:
\* thread t was last replied to k threads later than it was started.
Rotated(t, k) == ((t + k - 1) % MaxListed) + 1

\* A forum of plain, pinned and announced threads with any reply counts,
\* last replied to in an order that is not the order they were started in.
InitForumList ==
    /\ \E weight \in [ListedIds -> 0..ANNOUNCEMENT],
          replies \in [ListedIds -> 0..1],
          k \in 0..1 :
        threads = [t \in ListedIds |->
            [ThreadRow(1, NULL) EXCEPT !.weight = weight[t],
                                       !.replies = replies[t],
                                       !.last_post = Rotated(t, k)]]
    /\ posts = << >>
    /\ events = << >>
    /\ categories = [c \in CategoryIds |-> CategoryRow]
    /\ users = [u \in UserIds |-> [username |-> u, slug |-> 10 + u]]
    /\ last = NoSignal
    /\ HandlerIdle
    /\ PrivateIdle
    /\ BrowseIdle
    /\ forums = [f \in {1} |-> ForumRow(1, AclRow(TRUE, TRUE))]
    /\ listing = [user |-> NULL, forum |-> NULL, queryset |-> {}]
    /\ requests = << >>
    /\ locks = << >>

\* Any 'sort', for the forum or for a forum that does not exist.
NextForumList ==
    \/ \E sort \in Sorts, forum_id \in {1, 1 + 1} :
            ForumRequest(NULL, ForumKwargs(forum_id, NULL, sort, NULL))
    \/ \E pk_desc \in BOOLEAN : ForumDispatch(pk_desc)
    \/ FollowRedirect

SpecForumList == InitForumList /\ [][NextForumList]_vars

\* C11: get_ordering returns the requested 'sort' when it is one of the six
\* keys and the default key otherwise; a request that dispatch answers is
\* redirected to the forum URL without 'sort' exactly when its 'sort' is the
\* default key; the redirected request is rendered with the default
\* ordering, so that no chain of requests holds more than one redirect.
OrderingSelectedAndRedirectedOnce ==
    /\ \A sort \in Sorts :
        LET kwargs == ForumKwargs(1, NULL, sort, NULL)
        IN /\ get_ordering(kwargs) \in OrderingKeys
           /\ sort \in OrderingKeys => get_ordering(kwargs) = sort
           /\ sort \notin OrderingKeys => get_ordering(kwargs) = "recently-replied"
    /\ (browse.pc = "responded" /\ browse.raised = NONE) =>
        /\ browse.response = "redirect" <=> browse.kwargs.sort = "recently-replied"
        /\ browse.response = "redirect" =>
            /\ browse.location = [browse.kwargs EXCEPT !.sort = NONE]
            /\ browse.redirects = 0
        /\ browse.response = "render" =>
            browse.ordering = get_ordering(browse.kwargs)
        /\ browse.redirects > 0 =>
            /\ browse.response = "render"
            /\ browse.ordering = "recently-replied"
    /\ browse.pc # "idle" => browse.redirects <= 1

\* The default key was requested, redirected once, and the forum rendered.
OrderingSelectedAndRedirectedOnceWitness ==
    /\ browse.pc = "responded"
    /\ browse.requested.sort = "recently-replied"
    /\ browse.redirects = 1
    /\ browse.response = "render"
    /\ browse.ordering = "recently-replied"
    /\ Len(browse.threads) > 0

\* The column an ordering sorts threads of equal weight by, and its direction.
OrderingKey(ordering) ==
    IF ordering \in {"recently-replied", "last-replied"} THEN "last_post"
    ELSE IF ordering \in {"most-replied", "least-replied"} THEN "replies"
    ELSE "id"

OrderingDescends(ordering) == ordering \in {"recently-replied", "most-replied", "newest"}

\* C13: for every one of the six orderings, among the threads that are no
\* announcements a thread of greater weight is listed before every thread
\* of smaller weight, and threads of equal weight are listed by the
\* ordering's key in the ordering's direction.
PinnedFirstInEveryOrdering ==
    (browse.pc = "responded" /\ browse.response = "render") =>
        \A i \in DOMAIN browse.threads_qs, j \in DOMAIN browse.threads_qs :
            i < j =>
                LET a == browse.threads_qs[i]
                    b == browse.threads_qs[j]
                    ka == ColumnOf(a, OrderingKey(browse.ordering))
                    kb == ColumnOf(b, OrderingKey(browse.ordering))
                IN /\ threads[a].weight >= threads[b].weight
                   /\ threads[a].weight = threads[b].weight =>
                        IF OrderingDescends(browse.ordering)
                        THEN ka >= kb ELSE ka <= kb

\* ------------------------------------------------- EditorView.find_mode
\* C14: for every request whose kwargs hold 'forum_id' or 'thread_id', and
\* whose forum or thread get_forum or get_thread returns, find_mode yields
\* a mode among START, REPLY and EDIT: START with 'forum_id', a reply or
\* edit mode with 'thread_id' alone; it never fails on an unassigned
\* value.
FindModeYieldsMode ==
    \A r \in DOMAIN requests :
        LET q == requests[r]
        IN (/\ FoundMode(r)
            /\ (q.kwargs.forum_id # NULL \/ q.kwargs.thread_id # NULL)
            /\ q.raised_in \notin {"get_forum", "get_thread"}) =>
                /\ q.raised # "UnboundLocalError"
                /\ q.mode \in {START, REPLY, EDIT}
                /\ q.kwargs.forum_id # NULL => q.mode = START
                /\ q.kwargs.forum_id = NULL => q.mode \in {REPLY, EDIT}

\* ------------------------------------------------- private threads
\* user.private_thread_set.all(): the threads user u participates in.
private_thread_set(u) == {t \in private_threads : <<t, u>> \in participants}

\* thread.participants.count()
participants_count(t) == Cardinality({row \in participants : row[1] = t})

\* Min of a non-empty set of ids: batch_update yields rows in pk order.
Min(S) == CHOOSE x \in S : \A y \in S : x <= y

\* user.delete() is called: pre_delete is sent and the handler evaluates
\* threads_qs, the private threads of the user at that moment.
DeleteUser(u) ==
    /\ u \in DOMAIN users
    /\ deletions[u].pc = "idle"
    /\ deletions' = [deletions EXCEPT ![u] = [pc |-> "pre_delete",
                                               todo |-> private_thread_set(u)]]
    /\ UNCHANGED <<tables, users, last, handler, views, browse,
                   private_threads, participants>>

\* One turn of the handler's loop: the thread is deleted, with its
\* participant rows, if it counts one participant.
RemoveUnparticipated(u) ==
    /\ deletions[u].pc = "pre_delete"
    /\ deletions[u].todo # {}
    /\ LET thread == Min(deletions[u].todo)
           count == participants_count(thread)
       IN /\ IF count = 1
             THEN /\ Commit(delete_threads(DB, {thread} \cap DOMAIN threads))
                  /\ private_threads' = private_threads \ {thread}
                  /\ participants' = {row \in participants : row[1] # thread}
             ELSE UNCHANGED <<tables, private_threads, participants>>
          /\ deletions' = [deletions EXCEPT ![u].todo = deletions[u].todo \ {thread}]
          /\ last' = [op |-> "remove_unparticipated_private_threads",
                      sender |-> u, arg |-> thread, rows |-> count]
    /\ UNCHANGED <<users, handler, views, browse>>

\* The handler has returned: the user's row and, by cascade, the user's
\* participant rows are deleted.
CollectorDelete(u) ==
    /\ deletions[u].pc = "pre_delete"
    /\ deletions[u].todo = {}
    /\ participants' = {row \in participants : row[2] # u}
    /\ users' = Restrict(users, DOMAIN users \ {u})
    /\ deletions' = [deletions EXCEPT ![u].pc = "deleted"]
    /\ UNCHANGED <<tables, last, handler, views, browse, private_threads>>

\* Every thread is private and has at least one participant.
InitPrivate ==
    /\ threads = [t \in ThreadIds |-> ThreadRow(1, NULL)]
    /\ posts = << >>
    /\ events = << >>
    /\ categories = [c \in CategoryIds |-> CategoryRow]
    /\ users = [u \in UserIds |-> [username |-> u, slug |-> 10 + u]]
    /\ last = NoSignal
    /\ HandlerIdle
    /\ ViewsIdle
    /\ BrowseIdle
    /\ private_threads = ThreadIds
    /\ \E of \in [ThreadIds -> (SUBSET UserIds) \ {{}}] :
        participants = {<<t, u>> : t \in ThreadIds, u \in UserIds} \cap
                       {row \in ThreadIds \X UserIds : row[2] \in of[row[1]]}
    /\ deletions = [u \in UserIds |-> [pc |-> "idle", todo |-> {}]]

\* Users are deleted one after another or at the same time.
NextPrivate ==
    \/ \E u \in UserIds : DeleteUser(u)
    \/ \E u \in UserIds : RemoveUnparticipated(u)
    \/ \E u \in UserIds : CollectorDelete(u)

SpecPrivate == InitPrivate /\ [][NextPrivate]_vars

\* No user.delete() is under way.
NoDeletionRunning == \A u \in DOMAIN deletions : deletions[u].pc # "pre_delete"

\* C16: once the deletions of any set of users, run one after another or
\* concurrently, have ended, no private thread with zero participants
\* remains; the handler deletes a thread only when the user being deleted
\* is its sole participant and keeps a thread that has another participant.
NoOrphanedPrivateThreads ==
    /\ NoDeletionRunning =>
        \A t \in private_threads : participants_count(t) > 0
    /\ last.op = "remove_unparticipated_private_threads" =>
        /\ last.arg \notin private_threads => last.rows = 1
        /\ last.rows > 1 => last.arg \in private_threads

\* ------------------------------------------------- EditorView.allow_mode
\* The ACLs a forum can carry for a user.
EditorAcls ==
    {[AclRow(TRUE, TRUE) EXCEPT !.can_start_threads = can_start] : can_start \in BOOLEAN}

\* C17: the EditorFormset is built and formset.save() called only after
\* find_mode and allow_mode have returned without raising; allow_mode
\* invokes exactly the check of the mode; for START nothing is saved unless
\* the forum's see and browse checks and allow_start_thread passed; REPLY
\* and EDIT never reach save, their checks raising NotImplementedError.
PermissionCheckedBeforeWrite ==
    /\ \A r \in DOMAIN requests :
        LET q == requests[r]
        IN /\ q.saved => q.formset
           /\ q.updated => q.formset
           /\ q.formset =>
                /\ FoundMode(r)
                /\ q.raised = NONE
                /\ q.mode \in {START, REPLY, EDIT}
                /\ q.allowed_by # NONE
           /\ q.allowed_by # NONE =>
                /\ q.mode = START <=> q.allowed_by = "allow_start"
                /\ q.mode = REPLY <=> q.allowed_by = "allow_reply"
                /\ q.mode = EDIT <=> q.allowed_by = "allow_edit"
           /\ (q.formset /\ q.mode = START) =>
                /\ q.forum \in DOMAIN forums
                /\ ForumPermitted(q.forum)
                /\ forums[q.forum].acl.can_start_threads
           /\ q.mode \in {REPLY, EDIT} => ~q.saved
           /\ q.kwargs.forum_id = NULL => (~q.formset /\ ~q.saved)
    /\ \A acl \in EditorAcls :
        /\ allow_mode(START, acl) =
                [check |-> "allow_start", raised |-> allow_start_thread(acl)]
        /\ allow_mode(REPLY, acl) =
                [check |-> "allow_reply", raised |-> "NotImplementedError"]
        /\ allow_mode(EDIT, acl) =
                [check |-> "allow_edit", raised |-> "NotImplementedError"]

\* A thread was saved in a forum whose checks passed, by a POST that went
\* through allow_start.
PermissionCheckedBeforeWriteWitness ==
    \E r \in DOMAIN requests :
        /\ requests[r].pc = "done"
        /\ requests[r].saved
        /\ requests[r].mode = START
        /\ requests[r].allowed_by = "allow_start"
        /\ requests[r].response = "redirect"

====
